---------------------------- MODULE Spec2Model ----------------------------
(* Model of the rectangle geometry (src/src/rects.rs), the pairwise        *)
(* intersection search (src/src/lib.rs) and the command line driver        *)
(* (src/src/main.rs).                                                      *)
(*                                                                         *)
(* f32 coordinates are modelled by small integers plus the value NaN, with *)
(* the IEEE comparisons the code uses: every ordered comparison with NaN   *)
(* is false and NaN is not equal to itself.                                *)
EXTENDS Integers, Sequences, FiniteSets, TLC

\* ------------------------------------------------------------------ bounds
\* Largest finite coordinate handed to the geometry operations.
MaxCoord == 3
\* Largest number of objects in a parsed input document.
MaxShapes == 3
\* Largest x position of an object in a parsed input document.
MaxPos == 1

\* ------------------------------------------------------------ f32 values
NaN == 0 - 1

Coord == (0..MaxCoord) \cup {NaN}

\* a < b on f32
Lt(a, b) == a # NaN /\ b # NaN /\ a < b

\* a <= b on f32
Le(a, b) == a # NaN /\ b # NaN /\ a <= b

\* a == b on f32 (PartialEq)
FEq(a, b) == a # NaN /\ b # NaN /\ a = b

\* Option<T>
None == <<>>

Some(v) == <<v>>

\* ------------------------------------------------------------- rects.rs
Point2D(px, py) == [x |-> px, y |-> py]

PointEq(p, q) == FEq(p.x, q.x) /\ FEq(p.y, q.y)

BoundingRect(f, t) == [from |-> f, to |-> t]

\* derived PartialEq of BoundingRect
RectEq(r, s) == PointEq(r.from, s.from) /\ PointEq(r.to, s.to)

\* PartialEq of Option<BoundingRect>
OptRectEq(p, q) ==
    \/ p = None /\ q = None
    \/ p # None /\ q # None /\ RectEq(p[1], q[1])

\* PartialEq of Option<(f32, f32)>
OptLineEq(p, q) ==
    \/ p = None /\ q = None
    \/ p # None /\ q # None /\ FEq(p[1][1], q[1][1]) /\ FEq(p[1][2], q[1][2])

from_points_unsorted(a, b) ==
    BoundingRect(Point2D(a.x, a.y), Point2D(b.x, b.y))

from_points(a, b) ==
    LET xs == IF Lt(a.x, b.x) THEN <<a.x, b.x>> ELSE <<b.x, a.x>>
        ys == IF Lt(a.y, b.y) THEN <<a.y, b.y>> ELSE <<b.y, a.y>>
    IN  BoundingRect(Point2D(xs[1], ys[1]), Point2D(xs[2], ys[2]))

lines_intersection_wrong_end(a, b) ==
    LET sw == Lt(b[1], a[1])
        a1 == IF sw THEN b ELSE a
        b1 == IF sw THEN a ELSE b
    IN  IF ~Lt(b1[1], a1[1])
        THEN None
        ELSE Some(<<b1[1], IF Lt(a1[2], b1[2]) THEN a1[2] ELSE b1[2]>>)

lines_intersection_first_end(a, b) ==
    LET sw == Lt(b[1], a[1])
        a1 == IF sw THEN b ELSE a
        b1 == IF sw THEN a ELSE b
    IN  IF ~Lt(b1[1], a1[2])
        THEN None
        ELSE Some(<<b1[1], a1[2]>>)

lines_intersection(a, b) ==
    LET sw == Lt(b[1], a[1])
        a1 == IF sw THEN b ELSE a
        b1 == IF sw THEN a ELSE b
    IN  IF ~Lt(b1[1], a1[2])
        THEN None
        ELSE Some(<<b1[1], IF Lt(a1[2], b1[2]) THEN a1[2] ELSE b1[2]>>)

intersect_x_only(self, other) ==
    LET lx == lines_intersection(<<self.from.x, self.to.x>>,
                                 <<other.from.x, other.to.x>>)
    IN  IF lx = None THEN None
        ELSE Some(from_points(Point2D(lx[1][1], self.from.y),
                              Point2D(lx[1][2], self.to.y)))

intersect(self, other) ==
    LET lx == lines_intersection(<<self.from.x, self.to.x>>,
                                 <<other.from.x, other.to.x>>)
        ly == lines_intersection(<<self.from.y, self.to.y>>,
                                 <<other.from.y, other.to.y>>)
    IN  IF lx = None THEN None
        ELSE IF ly = None THEN None
        ELSE Some(from_points(Point2D(lx[1][1], ly[1][1]),
                              Point2D(lx[1][2], ly[1][2])))

\* --------------------------------------------------------------- lib.rs
\* ObjectArea's implementation of Shape::bounding_rect
bounding_rect(shape) == shape.area

\* Shape::intersection, the default method
intersection(self, other) == intersect(bounding_rect(self), bounding_rect(other))

Intersection(area, a, b) == [area |-> area, a_idx |-> a, b_idx |-> b]

\* -------------------------------------------------------------- main.rs
Object(name, width, height, ox, oy) ==
    [name |-> name, width |-> width, height |-> height, x |-> ox, y |-> oy]

ObjectArea(name, rect) == [name |-> name, area |-> rect]

\* Object::area
area(obj) ==
    ObjectArea(obj.name,
               from_points(Point2D(obj.x, obj.y),
                           Point2D(obj.x + obj.width, obj.y + obj.height)))

ObjectIntersection(names, rect) == [names |-> names, area |-> rect]

Output(areas_, intersections_) == [areas |-> areas_, intersections |-> intersections_]

FileReadError(path, reason) == [kind |-> "FileReadError", path |-> path, reason |-> reason]

ParseError(reason) == [kind |-> "ParseError", reason |-> reason]

\* --------------------------------------------------------------- inputs
Points == {Point2D(px, py) : px \in Coord, py \in Coord}

\* The points whose coordinates are numbers.
FinitePoints == {Point2D(px, py) : px \in 0..MaxCoord, py \in 0..MaxCoord}

Paths == {"objects.json", "missing.json"}

IoErrors == {"NotFound", "PermissionDenied"}

JsonErrors == {"syntax", "missing field"}

\* The k-th object of a document is named k.
ObjectsAt(k) ==
    {Object(k, w, h, ox, oy) : w \in {1, 2}, h \in {1}, ox \in 0..MaxPos, oy \in {0}}

Inputs ==
    UNION {{s \in [1..n -> UNION {ObjectsAt(k) : k \in 1..n}] :
                \A k \in 1..n : s[k] \in ObjectsAt(k)} : n \in 0..MaxShapes}

\* ---------------------------------------------------------------- state
VARIABLES
    \* geometry operations applied to drawn arguments
    gpc, pa, pb, pc2, pd, rect_a, rect_a_rev, rect_b,
    res, res_inv, res_self, line_x, line_x_inv,
    \* Args::run and list_intersections
    pc, input_file, file, parsed, areas, invoked, i, j, intersections,
    calls, output, error

geomVars == <<gpc, pa, pb, pc2, pd, rect_a, rect_a_rev, rect_b,
              res, res_inv, res_self, line_x, line_x_inv>>

runVars == <<pc, input_file, file, parsed, areas, invoked, i, j, intersections,
             calls, output, error>>

vars == <<geomVars, runVars>>


NoRect == BoundingRect(Point2D(0, 0), Point2D(0, 0))

GeomIdle ==
    /\ gpc = "idle"
    /\ pa = Point2D(0, 0) /\ pb = Point2D(0, 0)
    /\ pc2 = Point2D(0, 0) /\ pd = Point2D(0, 0)
    /\ rect_a = NoRect /\ rect_a_rev = NoRect /\ rect_b = NoRect
    /\ res = None /\ res_inv = None /\ res_self = None
    /\ line_x = None /\ line_x_inv = None

RunIdle ==
    /\ pc = "idle"
    /\ input_file = "objects.json"
    /\ file = None /\ parsed = None
    /\ areas = <<>> /\ invoked = 0 /\ i = 0 /\ j = 0
    /\ intersections = <<>> /\ calls = <<>>
    /\ output = None /\ error = None

\* ------------------------------------------- geometry: the pure functions
\* Four corner points are drawn; no rectangle has been built yet.
GeomInit ==
    /\ gpc = "points"
    /\ pa \in Points /\ pb \in Points
    /\ pc2 \in FinitePoints /\ pd \in FinitePoints
    /\ rect_a = NoRect /\ rect_a_rev = NoRect /\ rect_b = NoRect
    /\ res = None /\ res_inv = None /\ res_self = None
    /\ line_x = None /\ line_x_inv = None
    /\ RunIdle

\* BoundingRect::from_points on the drawn corners, in both argument orders.
FromPoints ==
    /\ gpc = "points"
    /\ rect_a' = from_points(pa, pb)
    /\ rect_a_rev' = from_points(pb, pa)
    /\ rect_b' = from_points(pc2, pd)
    /\ gpc' = "rects"
    /\ UNCHANGED <<pa, pb, pc2, pd, res, res_inv, res_self, line_x, line_x_inv>>
    /\ UNCHANGED runVars

\* BoundingRect::intersect on the two rectangles, in both argument orders and
\* of the first rectangle with itself; lines_intersection on the x extents.
Intersect ==
    /\ gpc = "rects"
    /\ res' = intersect(rect_a, rect_b)
    /\ res_inv' = intersect(rect_b, rect_a)
    /\ res_self' = intersect(rect_a, rect_a)
    /\ line_x' = lines_intersection(<<rect_a.from.x, rect_a.to.x>>,
                                    <<rect_b.from.x, rect_b.to.x>>)
    /\ line_x_inv' = lines_intersection(<<rect_b.from.x, rect_b.to.x>>,
                                        <<rect_a.from.x, rect_a.to.x>>)
    /\ gpc' = "done"
    /\ UNCHANGED <<pa, pb, pc2, pd, rect_a, rect_a_rev, rect_b>>
    /\ UNCHANGED runVars

GeomNext ==
    \/ FromPoints
    \/ Intersect

GeomSpec == GeomInit /\ [][GeomNext]_vars

\* ------------------------------------- Args::run and list_intersections
Init ==
    /\ pc = "start"
    /\ input_file \in Paths
    /\ file = None /\ parsed = None
    /\ areas = <<>> /\ invoked = 0 /\ i = 0 /\ j = 0
    /\ intersections = <<>> /\ calls = <<>>
    /\ output = None /\ error = None
    /\ GeomIdle

\* File::open fails: run returns Err(FileReadError { path, reason }).
OpenFail ==
    /\ pc = "start"
    /\ \E e \in IoErrors :
        /\ file' = Some([err |-> e])
        /\ error' = Some(FileReadError(input_file, e))
    /\ pc' = "failed"
    /\ UNCHANGED <<input_file, parsed, areas, invoked, i, j, intersections,
                   calls, output>>
    /\ UNCHANGED geomVars

\* File::open succeeds.
OpenOk ==
    /\ pc = "start"
    /\ file' = Some([ok |-> input_file])
    /\ pc' = "opened"
    /\ UNCHANGED <<input_file, parsed, areas, invoked, i, j, intersections,
                   calls, output, error>>
    /\ UNCHANGED geomVars

ParseFail_continues ==
    /\ pc = "opened"
    /\ \E e \in JsonErrors :
        /\ parsed' = Some([err |-> e])
        /\ error' = Some(ParseError(e))
    /\ pc' = "areas"
    /\ UNCHANGED <<input_file, file, areas, invoked, i, j, intersections,
                   calls, output>>
    /\ UNCHANGED geomVars

\* serde_json::from_reader fails: run returns Err(ParseError { reason }).
ParseFail ==
    /\ pc = "opened"
    /\ \E e \in JsonErrors :
        /\ parsed' = Some([err |-> e])
        /\ error' = Some(ParseError(e))
    /\ pc' = "failed"
    /\ UNCHANGED <<input_file, file, areas, invoked, i, j, intersections,
                   calls, output>>
    /\ UNCHANGED geomVars

\* serde_json::from_reader succeeds; the objects are mapped to their areas.
ParseOk ==
    /\ pc = "opened"
    /\ \E input \in Inputs :
        /\ parsed' = Some([ok |-> input])
        /\ areas' = [k \in 1..Len(input) |-> area(input[k])]
    /\ pc' = "areas"
    /\ UNCHANGED <<input_file, file, invoked, i, j, intersections, calls,
                   output, error>>
    /\ UNCHANGED geomVars

\* list_intersections is entered: an empty result vector, the outer loop starts.
Call ==
    /\ pc = "areas"
    /\ invoked' = invoked + 1
    /\ intersections' = <<>>
    /\ i' = 0
    /\ pc' = "outer"
    /\ UNCHANGED <<input_file, file, parsed, areas, j, calls, output, error>>
    /\ UNCHANGED geomVars

\* for i in 0..objects.len(): the next i, or the end of the outer loop.
Outer_from_i ==
    /\ pc = "outer"
    /\ IF i < Len(areas)
       THEN j' = i /\ pc' = "inner"
       ELSE j' = j /\ pc' = "return"
    /\ UNCHANGED <<input_file, file, parsed, areas, invoked, i, intersections,
                   calls, output, error>>
    /\ UNCHANGED geomVars

Outer ==
    /\ pc = "outer"
    /\ IF i < Len(areas)
       THEN j' = i + 1 /\ pc' = "inner"
       ELSE j' = j /\ pc' = "return"
    /\ UNCHANGED <<input_file, file, parsed, areas, invoked, i, intersections,
                   calls, output, error>>
    /\ UNCHANGED geomVars

\* for j in (i + 1)..objects.len(): one iteration of the body, or the end of
\* the inner loop.
Inner_swapped_idx ==
    /\ pc = "inner"
    /\ IF j < Len(areas)
       THEN LET found == intersection(areas[i + 1], areas[j + 1])
            IN  /\ calls' = Append(calls, <<i, j>>)
                /\ intersections' =
                     IF found # None
                     THEN Append(intersections, Intersection(found[1], j, i))
                     ELSE intersections
                /\ j' = j + 1
                /\ UNCHANGED <<i, pc>>
       ELSE /\ i' = i + 1
            /\ pc' = "outer"
            /\ UNCHANGED <<j, calls, intersections>>
    /\ UNCHANGED <<input_file, file, parsed, areas, invoked, output, error>>
    /\ UNCHANGED geomVars

Inner ==
    /\ pc = "inner"
    /\ IF j < Len(areas)
       THEN LET found == intersection(areas[i + 1], areas[j + 1])
            IN  /\ calls' = Append(calls, <<i, j>>)
                /\ intersections' =
                     IF found # None
                     THEN Append(intersections, Intersection(found[1], i, j))
                     ELSE intersections
                /\ j' = j + 1
                /\ UNCHANGED <<i, pc>>
       ELSE /\ i' = i + 1
            /\ pc' = "outer"
            /\ UNCHANGED <<j, calls, intersections>>
    /\ UNCHANGED <<input_file, file, parsed, areas, invoked, output, error>>
    /\ UNCHANGED geomVars

\* list_intersections has returned; run maps the summaries to the objects'
\* names and returns Ok(Output).
Return ==
    /\ pc = "return"
    /\ output' = Some(Output(areas,
            [k \in 1..Len(intersections) |->
                ObjectIntersection(
                    <<areas[intersections[k].a_idx + 1].name,
                      areas[intersections[k].b_idx + 1].name>>,
                    intersections[k].area)]))
    /\ pc' = "done"
    /\ UNCHANGED <<input_file, file, parsed, areas, invoked, i, j,
                   intersections, calls, error>>
    /\ UNCHANGED geomVars

Next ==
    \/ OpenFail
    \/ OpenOk
    \/ ParseFail
    \/ ParseOk
    \/ Call
    \/ Outer
    \/ Inner
    \/ Return

Spec == Init /\ [][Next]_vars

\* run is one synchronous call: once started, each step is taken.
FairSpec == Init /\ [][Next]_vars /\ WF_vars(Next)

\* Both families of runs: the geometry operations on drawn arguments, and
\* Args::run.
AllInit == GeomInit \/ Init

AllNext == GeomNext \/ Next

AllSpec == AllInit /\ [][AllNext]_vars

\* =================================================================== claims
\* The data-model invariant of a rectangle: from.x <= to.x and from.y <= to.y.
Valid(r) == Le(r.from.x, r.to.x) /\ Le(r.from.y, r.to.y)

\* Strictly positive width and height.
NonDegenerate(r) == Lt(r.from.x, r.to.x) /\ Lt(r.from.y, r.to.y)

Finite(p) == p.x # NaN /\ p.y # NaN

MinF(a, b) == IF a = NaN THEN b ELSE IF b = NaN THEN a ELSE IF a < b THEN a ELSE b

MaxF(a, b) == IF a = NaN THEN b ELSE IF b = NaN THEN a ELSE IF a < b THEN b ELSE a

IsErr(r) == r # None /\ "err" \in DOMAIN r[1]

IsOk(r) == r # None /\ "ok" \in DOMAIN r[1]

\* (a, b) comes strictly before (c, d) in lexicographic order.
LexLess(a, b, c, d) == a < c \/ (a = c /\ b < d)

\* ----------------------------------------------------------------------- C1
\* C1: when list_intersections returns, its result holds exactly one summary
\* for each index pair i < j < n whose shapes intersect and none for any other
\* pair; each summary carries that intersection as its area with a_idx = i and
\* b_idx = j; the summaries are in strictly increasing lexicographic order of
\* (a_idx, b_idx); for n = 0 and n = 1 the result is empty.
C1_ListIntersections ==
    pc \in {"return", "done"} =>
        LET n == Len(areas)
            m == Len(intersections)
        IN  /\ \A k \in 1..m :
                LET s == intersections[k]
                IN  /\ 0 <= s.a_idx /\ s.a_idx < s.b_idx /\ s.b_idx < n
                    /\ intersection(areas[s.a_idx + 1], areas[s.b_idx + 1]) = Some(s.area)
            /\ \A a \in 0..(n - 1) : \A b \in 0..(n - 1) :
                LET hits == {k \in 1..m : intersections[k].a_idx = a
                                          /\ intersections[k].b_idx = b}
                IN  IF a < b /\ intersection(areas[a + 1], areas[b + 1]) # None
                    THEN Cardinality(hits) = 1
                    ELSE hits = {}
            /\ \A k \in 1..(m - 1) :
                LexLess(intersections[k].a_idx, intersections[k].b_idx,
                        intersections[k + 1].a_idx, intersections[k + 1].b_idx)
            /\ (n <= 1 => intersections = <<>>)

\* Three shapes, of which two pairs intersect and one pair does not.
C1_Witness ==
    /\ pc = "return"
    /\ Len(areas) = 3
    /\ Len(intersections) = 2
    /\ intersections[1].a_idx = 0 /\ intersections[1].b_idx = 1
    /\ intersections[2].a_idx = 1 /\ intersections[2].b_idx = 2

\* ----------------------------------------------------------------------- C2
\* C2: for all rectangles A and B with from.x <= to.x and from.y <= to.y,
\* A.intersect(B) equals B.intersect(A), and lines_intersection gives the same
\* result with its two arguments swapped.
C2_Symmetric ==
    (gpc = "done" /\ Valid(rect_a) /\ Valid(rect_b)) =>
        /\ OptRectEq(res, res_inv)
        /\ OptLineEq(line_x, line_x_inv)

\* ----------------------------------------------------------------------- C3
\* C3 as stated: for every rectangle A with from.x <= to.x and
\* from.y <= to.y, A.intersect(A) is Some(A).
C3_SelfIntersectionValid ==
    (gpc = "done" /\ Valid(rect_a)) => OptRectEq(res_self, Some(rect_a))

\* C3 as amended: for every rectangle A with from.x < to.x and
\* from.y < to.y, A.intersect(A) is Some(A); for a rectangle of zero width or
\* zero height it is None.
C3_SelfIntersection ==
    /\ (gpc = "done" /\ NonDegenerate(rect_a)) => OptRectEq(res_self, Some(rect_a))
    /\ (gpc = "done" /\ Valid(rect_a) /\ ~NonDegenerate(rect_a)) => res_self = None

C3_Witness ==
    /\ gpc = "done"
    /\ NonDegenerate(rect_a)
    /\ res_self = Some(rect_a)

\* ----------------------------------------------------------------------- C4
\* C4: for intervals with lo <= hi, lines_intersection returns nothing when
\* the two share at most one point, so every interval it returns has lo < hi;
\* every rectangle intersect returns on valid rectangles has strictly positive
\* width and height.
C4_NoDegenerateResult ==
    (gpc = "done" /\ Valid(rect_a) /\ Valid(rect_b)) =>
        /\ (MaxF(rect_a.from.x, rect_b.from.x) >= MinF(rect_a.to.x, rect_b.to.x)
                => line_x = None /\ line_x_inv = None)
        /\ (line_x # None => Lt(line_x[1][1], line_x[1][2]))
        /\ (line_x_inv # None => Lt(line_x_inv[1][1], line_x_inv[1][2]))
        /\ (res # None => NonDegenerate(res[1]))
        /\ (res_inv # None => NonDegenerate(res_inv[1]))

\* ----------------------------------------------------------------------- C5
\* C5 as stated: every rectangle from_points builds from any two points,
\* every rectangle intersect returns and every area list_intersections
\* reports has from.x <= to.x and from.y <= to.y.
C5_CanonicalAnyPoints ==
    /\ gpc \in {"rects", "done"} =>
            Valid(rect_a) /\ Valid(rect_a_rev) /\ Valid(rect_b)
    /\ gpc = "done" =>
            /\ (res # None => Valid(res[1]))
            /\ (res_inv # None => Valid(res_inv[1]))
            /\ (res_self # None => Valid(res_self[1]))
    /\ \A k \in 1..Len(intersections) : Valid(intersections[k].area)

\* C5 as amended: the same, for points whose coordinates are not NaN and for
\* the rectangles built from such points.
C5_Canonical ==
    /\ (gpc \in {"rects", "done"} /\ Finite(pa) /\ Finite(pb)) =>
            Valid(rect_a) /\ Valid(rect_a_rev)
    /\ gpc \in {"rects", "done"} => Valid(rect_b)
    /\ (gpc = "done" /\ Finite(pa) /\ Finite(pb)) =>
            /\ (res # None => Valid(res[1]))
            /\ (res_inv # None => Valid(res_inv[1]))
            /\ (res_self # None => Valid(res_self[1]))
    /\ \A k \in 1..Len(areas) : Valid(areas[k].area)
    /\ \A k \in 1..Len(intersections) : Valid(intersections[k].area)

\* The corners were given in descending order on x and ascending on y, and
\* the two rectangles intersect.
C5_Witness ==
    /\ gpc = "done"
    /\ Finite(pa) /\ Finite(pb)
    /\ pa.x > pb.x /\ pa.y < pb.y
    /\ res # None

\* ----------------------------------------------------------------------- C6
\* C6 as stated: for all points a and b, from_points(a, b) equals
\* from_points(b, a), and both equal the rectangle from
\* (min(a.x, b.x), min(a.y, b.y)) to (max(a.x, b.x), max(a.y, b.y)).
C6_OrderIndependentAnyPoints ==
    gpc \in {"rects", "done"} =>
        LET r == BoundingRect(Point2D(MinF(pa.x, pb.x), MinF(pa.y, pb.y)),
                              Point2D(MaxF(pa.x, pb.x), MaxF(pa.y, pb.y)))
        IN  /\ rect_a = rect_a_rev
            /\ rect_a = r
            /\ rect_a_rev = r

\* C6 as amended: the same, for all points a and b whose coordinates are not
\* NaN.
C6_OrderIndependent ==
    (gpc \in {"rects", "done"} /\ Finite(pa) /\ Finite(pb)) =>
        LET r == BoundingRect(Point2D(MinF(pa.x, pb.x), MinF(pa.y, pb.y)),
                              Point2D(MaxF(pa.x, pb.x), MaxF(pa.y, pb.y)))
        IN  /\ rect_a = rect_a_rev
            /\ rect_a = r
            /\ rect_a_rev = r

\* The corners were given in ascending order on x and descending on y.
C6_Witness ==
    /\ gpc = "rects"
    /\ Finite(pa) /\ Finite(pb)
    /\ pa.x < pb.x /\ pa.y > pb.y

\* ----------------------------------------------------------------------- C7
\* C7: valid rectangles separated along x or along y do not intersect, in
\* either argument order, whatever their extents on the other axis.
C7_Separated ==
    (/\ gpc = "done" /\ Valid(rect_a) /\ Valid(rect_b)
     /\ \/ Lt(rect_a.to.x, rect_b.from.x)
        \/ Lt(rect_b.to.x, rect_a.from.x)
        \/ Lt(rect_a.to.y, rect_b.from.y)
        \/ Lt(rect_b.to.y, rect_a.from.y))
    => res = None /\ res_inv = None

\* Separated along y only: the x extents overlap.
C7_Witness ==
    /\ gpc = "done"
    /\ Valid(rect_a) /\ Valid(rect_b)
    /\ Lt(rect_b.to.y, rect_a.from.y)
    /\ line_x # None
    /\ res = None /\ res_inv = None

\* ----------------------------------------------------------------------- C8
\* C8: if opening the input fails, run returns FileReadError with the
\* attempted path and the cause; if parsing fails, ParseError with the cause;
\* in both cases list_intersections is never called and there is no Output;
\* an Output exists only after both steps succeeded.
C8_InputFailure ==
    /\ IsErr(file) =>
            /\ error = Some(FileReadError(input_file, file[1].err))
            /\ parsed = None
    /\ IsErr(parsed) =>
            /\ IsOk(file)
            /\ error = Some(ParseError(parsed[1].err))
    /\ error # None =>
            /\ IsErr(file) \/ IsErr(parsed)
            /\ pc = "failed"
            /\ invoked = 0 /\ calls = <<>> /\ output = None
    /\ invoked > 0 => IsOk(file) /\ IsOk(parsed)
    /\ output # None => IsOk(file) /\ IsOk(parsed) /\ error = None /\ invoked = 1

\* The file opened and the parse failed.
C8_Witness ==
    /\ pc = "failed"
    /\ IsOk(file)
    /\ IsErr(parsed)
    /\ error # None /\ error[1].kind = "ParseError"

\* ----------------------------------------------------------------------- C9
\* C9: for rectangles A and B with from.x < to.x and from.y < to.y,
\* A.intersect(B) is present exactly when the larger from is below the smaller
\* to on both axes, and then it is the rectangle from the larger from
\* coordinates to the smaller to coordinates; when B lies inside A it is B.
C9_Reference ==
    (gpc = "done" /\ NonDegenerate(rect_a) /\ NonDegenerate(rect_b)) =>
        LET fx == MaxF(rect_a.from.x, rect_b.from.x)
            fy == MaxF(rect_a.from.y, rect_b.from.y)
            tx == MinF(rect_a.to.x, rect_b.to.x)
            ty == MinF(rect_a.to.y, rect_b.to.y)
        IN  /\ (res # None) <=> (fx < tx /\ fy < ty)
            /\ res # None => RectEq(res[1], BoundingRect(Point2D(fx, fy), Point2D(tx, ty)))
            /\ (/\ Le(rect_a.from.x, rect_b.from.x) /\ Le(rect_b.to.x, rect_a.to.x)
                /\ Le(rect_a.from.y, rect_b.from.y) /\ Le(rect_b.to.y, rect_a.to.y))
               => OptRectEq(res, Some(rect_b))

\* B lies strictly inside A.
C9_Witness ==
    /\ gpc = "done"
    /\ NonDegenerate(rect_a) /\ NonDegenerate(rect_b)
    /\ Lt(rect_a.from.x, rect_b.from.x) /\ Lt(rect_b.to.x, rect_a.to.x)
    /\ Lt(rect_a.from.y, rect_b.from.y) /\ Lt(rect_b.to.y, rect_a.to.y)
    /\ res = Some(rect_b)

\* ---------------------------------------------------------------------- C10
\* C10: list_intersections, once entered, returns; when it has returned it
\* has called the shape intersection exactly n*(n-1)/2 times, once for each
\* pair i < j < n in lexicographic order and for no other pair, and its input
\* is what it was when it was called.
C10_AllPairsTerminates ==
    /\ [](pc \in {"return", "done"} =>
            LET n == Len(areas)
            IN  /\ 2 * Len(calls) = n * (n - 1)
                /\ \A k \in 1..Len(calls) :
                      /\ 0 <= calls[k][1]
                      /\ calls[k][1] < calls[k][2]
                      /\ calls[k][2] < n
                /\ \A k \in 1..(Len(calls) - 1) :
                      LexLess(calls[k][1], calls[k][2], calls[k + 1][1], calls[k + 1][2])
                /\ areas = [k \in 1..Len(parsed[1].ok) |-> area(parsed[1].ok[k])])
    /\ [](pc = "outer" => <>(pc = "return"))

\* Three shapes: the three pairs were visited.
C10_Witness ==
    /\ pc = "return"
    /\ Len(areas) = 3
    /\ calls = <<<<0, 1>>, <<0, 2>>, <<1, 2>>>>

=============================================================================
